---------------------------- MODULE Spec2Model ----------------------------
(***************************************************************************)
(* Model of src/App.tsx: the chat component's state (messages, userInput,  *)
(* isLoading), handleSendMessage with its streaming decode loop, and the   *)
(* speech callbacks.                                                       *)
(*                                                                         *)
(* Text is a sequence of code units.  A unit is a one-character string,    *)
(* except that a run of characters the program never looks inside one by   *)
(* one (the body of a JSON object, a fixed English sentence) is written as *)
(* one unit.  The six characters of "data: " are six units, so startsWith  *)
(* and substring(6) act on single characters.  On the wire the same units  *)
(* travel as bytes; the code point U+00E9 travels as two bytes.            *)
(*                                                                         *)
(* JavaScript runs a handler to completion: while the for loop over the    *)
(* lines of one chunk is running (pc = "lines") no other handler runs.     *)
(* setMessages(updater) is modelled as applying the updater at the call.   *)
(***************************************************************************)
EXTENDS Naturals, Sequences, FiniteSets

VARIABLES messages, userInput, isLoading, reqs, speakLog, utterance, event

vars == <<messages, userInput, isLoading, reqs, speakLog, utterance, event>>

---------------------------------------------------------------------------
(* Bounds of the model *)

MaxLines == 3

MaxSubmits == 2

---------------------------------------------------------------------------
(* Strings *)

NL == "\n"

WhiteSpace == {" ", "\n", "\r", "\t"}

RECURSIVE TrimStart(_)
TrimStart(s) ==
    IF s # <<>> /\ Head(s) \in WhiteSpace THEN TrimStart(Tail(s)) ELSE s

RECURSIVE TrimEnd(_)
TrimEnd(s) ==
    IF s # <<>> /\ s[Len(s)] \in WhiteSpace
    THEN TrimEnd(SubSeq(s, 1, Len(s) - 1))
    ELSE s

\* String.prototype.trim
Trim(s) == TrimEnd(TrimStart(s))

\* String.prototype.startsWith
StartsWith(s, p) == Len(s) >= Len(p) /\ SubSeq(s, 1, Len(p)) = p

\* String.prototype.substring(n), for a string whose first n units are
\* single characters
Substring(s, n) == SubSeq(s, n + 1, Len(s))

\* String.prototype.split('\n'): the pieces between the newlines, never empty,
\* Split(<<>>) = << <<>> >>
Split(s) ==
    LET nl == {i \in 1..Len(s) : s[i] = NL}
        n == Cardinality(nl)
        Nth(j) == CHOOSE i \in nl : Cardinality({m \in nl : m < i}) = j - 1
        First(j) == IF j = 1 THEN 1 ELSE Nth(j - 1) + 1
        Last(j) == IF j = n + 1 THEN Len(s) ELSE Nth(j) - 1
    IN  [j \in 1..(n + 1) |-> SubSeq(s, First(j), Last(j))]

---------------------------------------------------------------------------
(* TextDecoder (UTF-8, stream: true) *)

LeadBytes == {"0xC3"}

ContinuationBytes == {"0xA9"}

Replacement == "U+FFFD"

\* The code point of a two-byte sequence
CodePoint(lead, cont) == "U+00E9"

RECURSIVE Utf8Decode(_, _, _, _)
\* pending: the bytes of an incomplete sequence kept from the last call;
\* i: the byte to look at next
Utf8Decode(pending, bytes, i, out) ==
    IF i > Len(bytes) THEN [out |-> out, pending |-> pending]
    ELSE IF pending # <<>>
         THEN IF bytes[i] \in ContinuationBytes
              THEN Utf8Decode(<<>>, bytes, i + 1,
                              Append(out, CodePoint(pending[1], bytes[i])))
              ELSE Utf8Decode(<<>>, bytes, i, Append(out, Replacement))
    ELSE IF bytes[i] \in LeadBytes THEN Utf8Decode(<<bytes[i]>>, bytes, i + 1, out)
    ELSE IF bytes[i] \in ContinuationBytes
         THEN Utf8Decode(<<>>, bytes, i + 1, Append(out, Replacement))
    ELSE Utf8Decode(<<>>, bytes, i + 1, Append(out, bytes[i]))

\* decoder.decode(value, { stream: true })
Decode(pending, value) == Utf8Decode(pending, value, 1, <<>>)

RECURSIVE Utf8Encode(_)
\* What the server puts on the wire for a text
Utf8Encode(s) ==
    IF s = <<>> THEN <<>>
    ELSE (IF Head(s) = "U+00E9" THEN <<"0xC3", "0xA9">> ELSE <<Head(s)>>)
         \o Utf8Encode(Tail(s))

---------------------------------------------------------------------------
(* JavaScript values and JSON *)

Undefined == [t |-> "undefined"]

Str(s) == [t |-> "string", v |-> s]

Obj(fields) == [t |-> "object", f |-> fields]

Arr(elems) == [t |-> "array", e |-> elems]

\* x.k for an object x; a missing property reads undefined
Get(x, k) ==
    IF x.t = "object" /\ k \in DOMAIN x.f THEN x.f[k] ELSE Undefined

Truthy(x) ==
    CASE x.t = "undefined" -> FALSE
      [] x.t = "string" -> x.v # <<>>
      [] OTHER -> TRUE

\* What += appends for a value
ToString(x) == IF x.t = "string" THEN x.v ELSE <<"[object Object]">>

JsonOpen == "{\"choices\":[{\"delta\":{\"content\":\""

JsonClose == "\"}}]}"

JsonRoleOnly == "{\"choices\":[{\"delta\":{\"role\":\"assistant\"}}]}"

JsonNoChoices == "{\"error\":{\"message\":\"overloaded\"}}"

DeltaValue(content) ==
    Obj([choices |-> Arr(<<Obj([delta |-> Obj([content |-> Str(content)])])>>)])

\* The characters that may stand between the quotes of a JSON string here
StringChars == {"a", "U+00E9"}

\* The value of a JSON text without white space around it; ok = FALSE stands
\* for the SyntaxError JSON.parse throws
JsonValue(body) ==
    IF Len(body) >= 2 /\ body[1] = JsonOpen /\ body[Len(body)] = JsonClose
       /\ \A i \in 2..(Len(body) - 1) : body[i] \in StringChars
    THEN [ok |-> TRUE, value |-> DeltaValue(SubSeq(body, 2, Len(body) - 1))]
    ELSE IF body = <<JsonRoleOnly>>
    THEN [ok |-> TRUE,
          value |-> Obj([choices |->
                     Arr(<<Obj([delta |-> Obj([role |-> Str(<<"assistant">>)])])>>)])]
    ELSE IF body = <<JsonNoChoices>>
    THEN [ok |-> TRUE,
          value |-> Obj([error |-> Obj([message |-> Str(<<"overloaded">>)])])]
    ELSE [ok |-> FALSE]

\* JSON.parse(data), which ignores white space around the text.  (A function
\* applied to its only argument: the argument is computed once.)
JsonParse(data) == [body \in {Trim(data)} |-> JsonValue(body)][Trim(data)]

\* parsed.choices[0]?.delta?.content; thrown = TRUE stands for the TypeError
\* of indexing undefined
ContentOf(parsed) ==
    LET choices == Get(parsed, "choices") IN
    IF choices.t = "undefined" THEN [thrown |-> TRUE]
    ELSE LET first == IF choices.t = "array" /\ Len(choices.e) > 0
                      THEN choices.e[1] ELSE Undefined
             delta == IF first.t = "undefined" THEN Undefined
                      ELSE Get(first, "delta")
         IN  [thrown |-> FALSE,
              value |-> IF delta.t = "undefined" THEN Undefined
                        ELSE Get(delta, "content")]


---------------------------------------------------------------------------
(* What the provider sends *)

DataPrefix == <<"d", "a", "t", "a", ":", " ">>

DoneSentinel == <<"[DONE]">>

\* One line of the response body, without its newline
Render(l) ==
    CASE l.k = "delta"     -> DataPrefix \o <<JsonOpen>> \o l.s \o <<JsonClose>>
      [] l.k = "done"      -> DataPrefix \o DoneSentinel
      [] l.k = "malformed" -> DataPrefix \o <<JsonOpen>>
      [] l.k = "nochoices" -> DataPrefix \o <<JsonNoChoices>>
      [] l.k = "roleonly"  -> DataPrefix \o <<JsonRoleOnly>>
      [] OTHER             -> <<"\r">>

RECURSIVE BodyText(_)
\* The body: every line followed by a newline
BodyText(ls) ==
    IF ls = <<>> THEN <<>> ELSE Render(Head(ls)) \o <<NL>> \o BodyText(Tail(ls))

DeltaLine(s) == [k |-> "delta", s |-> s]

OtherLine(k) == [k |-> k, s |-> <<>>]

\* The lines every body of up to MaxLines lines is made of
CoreLines ==
    {DeltaLine(<<"a">>), DeltaLine(<<"U+00E9">>), OtherLine("done"),
     OtherLine("malformed")}

\* Bodies with the other lines: an empty delta, a delta without content, an
\* object without choices, a blank line
ExtraStreams ==
    { <<DeltaLine(<<>>), DeltaLine(<<"a">>), OtherLine("done")>>,
      <<OtherLine("roleonly"), DeltaLine(<<"a">>), OtherLine("blank"),
        DeltaLine(<<"U+00E9">>), OtherLine("blank"), OtherLine("done")>>,
      <<DeltaLine(<<"a">>), OtherLine("nochoices"), DeltaLine(<<"a">>),
        DeltaLine(<<"U+00E9">>)>>,
      <<OtherLine("nochoices"), OtherLine("done"), OtherLine("blank"),
        DeltaLine(<<"a">>)>> }

\* The bodies of a single request
Streams == UNION {[1..n -> CoreLines] : n \in 0..MaxLines} \cup ExtraStreams

StreamResponse(ls) ==
    [ok |-> TRUE, statusText |-> <<"OK">>,
     body |-> [kind |-> "stream", lines |-> ls]]

NullBodyResponse ==
    [ok |-> TRUE, statusText |-> <<"OK">>, body |-> [kind |-> "null"]]

ErrorBody(m) == Obj([error |-> Obj([message |-> Str(m)])])

ErrorResponses ==
    { [ok |-> FALSE, statusText |-> <<"Unauthorized">>,
       body |-> [kind |-> "json", value |-> ErrorBody(<<"bad key">>)]],
      [ok |-> FALSE, statusText |-> <<"Unauthorized">>,
       body |-> [kind |-> "json", value |-> ErrorBody(<<>>)]],
      [ok |-> FALSE, statusText |-> <<"Bad Gateway">>,
       body |-> [kind |-> "text"]],
      [ok |-> FALSE, statusText |-> <<>>, body |-> [kind |-> "text"]],
      [ok |-> FALSE, statusText |-> <<"Not Found">>,
       body |-> [kind |-> "json",
                 value |-> Obj([message |-> Str(<<"no route">>)])]] }

\* Every response of the single-request specification
RequestResponses ==
    {StreamResponse(ls) : ls \in Streams} \cup {NullBodyResponse}
    \cup ErrorResponses

\* The responses of the session specification
SessionResponses ==
    { StreamResponse(<<DeltaLine(<<"a">>), DeltaLine(<<"U+00E9">>)>>),
      StreamResponse(<<OtherLine("done")>>),
      NullBodyResponse,
      [ok |-> FALSE, statusText |-> <<"Unauthorized">>,
       body |-> [kind |-> "json", value |-> ErrorBody(<<"bad key">>)]] }

\* What the user can type, and what the recogniser can hear
InputTexts == {<<>>, <<" ", " ", " ">>, <<"h", "i">>}

Transcripts == {<<"h", "i">>}

---------------------------------------------------------------------------
(* The component *)

Greeting ==
    <<"Hello! I'm a voice-enabled AI assistant. How can I help you today?">>

Message(role, content) == [role |-> role, content |-> content]

NoResponse == [ok |-> FALSE, statusText |-> <<>>, body |-> [kind |-> "none"]]

\* The locals of one call of handleSendMessage that passed the guard
NewRequest(slot) ==
    [pc |-> "fetch", response |-> NoResponse, wire |-> <<>>, pending |-> <<>>,
     buffer |-> <<>>, lines |-> <<>>, fullResponse |-> <<>>,
     outcome |-> "running", error |-> <<>>, slot |-> slot]

Init ==
    /\ messages = <<Message("MODEL", Greeting)>>
    /\ userInput = <<>>
    /\ isLoading = FALSE
    /\ reqs = <<>>
    /\ speakLog = <<>>
    /\ utterance = <<>>
    /\ event = "other"

\* No handler is in the middle of its for loop
NoTaskRunning == \A r \in DOMAIN reqs : reqs[r].pc # "lines"

\* A guard that leaves isLoading out: if (!text.trim()) return;
RejectsBlankOnly(text) == Trim(text) = <<>>

\* if (isLoading || !text.trim()) return;
Rejects(text) == isLoading \/ Trim(text) = <<>>

\* The placeholder put in front of the user message
PlaceholderFirst(prev, text) ==
    prev \o <<Message("MODEL", <<>>), Message("USER", text)>>

\* [...messages, userMessage] and then the placeholder
WithPlaceholder(prev, text) ==
    prev \o <<Message("USER", text), Message("MODEL", <<>>)>>

\* speak(text): the utterance is replaced only by a non-empty text
Utter(text) == IF text # <<>> THEN text ELSE utterance

\* handleSubmit: handleSendMessage(userInput), up to the first await
Submit(cap) ==
    /\ NoTaskRunning
    /\ event' = "submit"
    /\ IF Rejects(userInput)
       THEN UNCHANGED <<messages, userInput, isLoading, reqs, speakLog, utterance>>
       ELSE /\ Len(reqs) < cap
            /\ isLoading' = TRUE
            /\ userInput' = <<>>
            /\ messages' = WithPlaceholder(messages, userInput)
            /\ reqs' = Append(reqs, NewRequest(Len(messages) + 2))
            /\ UNCHANGED <<speakLog, utterance>>

\* onChange of the input, which is disabled while isLoading
OnChange(text) ==
    /\ NoTaskRunning
    /\ ~isLoading
    /\ userInput' = text
    /\ event' = "other"
    /\ UNCHANGED <<messages, isLoading, reqs, speakLog, utterance>>

\* recognition.onresult
OnResult(transcript) ==
    /\ NoTaskRunning
    /\ userInput' = transcript
    /\ event' = "other"
    /\ UNCHANGED <<messages, isLoading, reqs, speakLog, utterance>>

ErrorPrefix == <<"Sorry, I encountered an error: ">>

ErrorSuffix == <<". Please check your API key and network connection.">>

\* The template string of the catch block
ErrorMessage(reason) == ErrorPrefix \o reason \o ErrorSuffix

\* An updater that always takes the push branch
ErrorPushed(prev, errorMessage) == Append(prev, Message("MODEL", errorMessage))

\* The updater of the catch block
ErrorUpdate(prev, errorMessage) ==
    IF Len(prev) > 0 /\ prev[Len(prev)].role = "MODEL"
    THEN [prev EXCEPT ![Len(prev)].content = errorMessage]
    ELSE Append(prev, Message("MODEL", errorMessage))

\* setIsLoading(false) at the end of the try block only, with no finally
LoadingWithoutFinally(failed) == failed

\* isLoading after the finally block
LoadingAfter(failed) == FALSE

\* catch (error) { ... } finally { ... } for a thrown Error with this message
Fails(r, reason, response) ==
    /\ messages' = ErrorUpdate(messages, ErrorMessage(reason))
    /\ speakLog' = Append(speakLog, ErrorMessage(reason))
    /\ utterance' = Utter(ErrorMessage(reason))
    /\ isLoading' = LoadingAfter(TRUE)
    /\ reqs' = [reqs EXCEPT ![r] =
                   [NewRequest(reqs[r].slot) EXCEPT
                        !.pc = "finished", !.outcome = "error",
                        !.error = reason, !.response = response,
                        !.fullResponse = reqs[r].fullResponse]]
    /\ event' = "other"
    /\ UNCHANGED userInput

\* fetch rejects
FetchRejects(r) ==
    /\ NoTaskRunning
    /\ reqs[r].pc = "fetch"
    /\ Fails(r, <<"Failed to fetch">>, NoResponse)

\* errorData.error.message || "API error", with errorData from response.json()
\* or, when that rejects, { error: { message: response.statusText } }
NotOkReason(response) ==
    LET errorData == IF response.body.kind = "json" THEN response.body.value
                     ELSE ErrorBody(response.statusText)
        error == Get(errorData, "error")
    IN  IF error.t = "undefined"
        THEN <<"Cannot read properties of undefined (reading 'message')">>
        ELSE IF Truthy(Get(error, "message"))
             THEN ToString(Get(error, "message"))
             ELSE <<"API error">>

\* fetch resolves: the checks of response.ok and response.body, getReader
FetchResponds(r, response) ==
    /\ NoTaskRunning
    /\ reqs[r].pc = "fetch"
    /\ IF ~response.ok THEN Fails(r, NotOkReason(response), response)
       ELSE IF response.body.kind # "stream"
       THEN Fails(r, <<"Response body is null">>, response)
       ELSE /\ reqs' = [reqs EXCEPT ![r] =
                          [@ EXCEPT !.pc = "read", !.response = response,
                                    !.wire = Utf8Encode(BodyText(response.body.lines))]]
            /\ event' = "other"
            /\ UNCHANGED <<messages, userInput, isLoading, speakLog, utterance>>

\* buffer = '' after the split: the incomplete line is forgotten
TailForgotten(parts) == <<>>

\* buffer = lines.pop() || ''
KeptTail(parts) == parts[Len(parts)]

\* reader.read() resolves with a chunk of k bytes: decode, split, pop
ReadChunk(r, k) ==
    /\ NoTaskRunning
    /\ reqs[r].pc = "read"
    /\ k \in 1..Len(reqs[r].wire)
    /\ \E value \in {SubSeq(reqs[r].wire, 1, k)} :
       \E kept \in {reqs[r].pending} :
       \E dec \in {Decode(kept, value)} :
       \E text \in {reqs[r].buffer \o dec.out} :
       \E parts \in {Split(text)} :
       \E lines \in {SubSeq(parts, 1, Len(parts) - 1)} :
          reqs' = [reqs EXCEPT ![r] =
                     [@ EXCEPT !.wire = SubSeq(@, k + 1, Len(@)),
                               !.pending = dec.pending,
                               !.buffer = KeptTail(parts),
                               !.lines = lines,
                               !.pc = IF lines = <<>> THEN "read" ELSE "lines"]]
    /\ event' = "other"
    /\ UNCHANGED <<messages, userInput, isLoading, speakLog, utterance>>

\* reader.read() resolves with done: speak(fullResponse), finally
ReadDone(r) ==
    /\ NoTaskRunning
    /\ reqs[r].pc = "read"
    /\ reqs[r].wire = <<>>
    /\ speakLog' = Append(speakLog, reqs[r].fullResponse)
    /\ utterance' = Utter(reqs[r].fullResponse)
    /\ isLoading' = LoadingAfter(FALSE)
    /\ reqs' = [reqs EXCEPT ![r] =
                   [NewRequest(reqs[r].slot) EXCEPT
                        !.pc = "finished", !.outcome = "ok",
                        !.response = reqs[r].response,
                        !.fullResponse = reqs[r].fullResponse]]
    /\ event' = "other"
    /\ UNCHANGED <<messages, userInput>>

\* reader.read() rejects
ReadRejects(r) ==
    /\ NoTaskRunning
    /\ reqs[r].pc = "read"
    /\ Fails(r, <<"network error">>, reqs[r].response)

\* line.trim() === '' || !line.startsWith('data: ')
Skipped(line) == Trim(line) = <<>> \/ ~StartsWith(line, DataPrefix)

\* data.trim() === '[DONE]'
IsDone(data) == Trim(data) = DoneSentinel

\* continue in place of break: the for loop goes on after [DONE]
AfterContinue(rest) == rest

\* The lines left to the for loop after break
AfterBreak(rest) == <<>>

\* A catch outside the for loop: a thrown line ends the chunk
AfterOuterCatch(rest) == <<>>

\* The lines left to the for loop after the inner catch
AfterCatch(rest) == rest

\* fullResponse = content + fullResponse
Prepend(fullResponse, content) == content \o fullResponse

\* fullResponse += content
Accumulate(fullResponse, content) == fullResponse \o content

\* An updater that pushes the cumulative text as a new message
PushDelta(prev, fullResponse) == Append(prev, Message("MODEL", fullResponse))

\* The updater of the read loop
ApplyDelta(prev, fullResponse) ==
    [prev EXCEPT ![Len(prev)].content = fullResponse]

\* if (content) { fullResponse += content; ... }
Appended(content) ==
    IF content.thrown THEN [caught |-> TRUE, text |-> <<>>]
    ELSE IF Truthy(content.value)
         THEN [caught |-> FALSE, text |-> ToString(content.value)]
         ELSE [caught |-> FALSE, text |-> <<>>]

\* The try block after JSON.parse
AfterParse(parsed) ==
    IF ~parsed.ok THEN [caught |-> TRUE, text |-> <<>>]
    ELSE [content \in {ContentOf(parsed.value)} |-> Appended(content)]
             [ContentOf(parsed.value)]

\* The text the try block appends for a payload; <<>> when it appends nothing,
\* caught = TRUE when JSON.parse or the property access throws
Delta(data) ==
    [parsed \in {JsonParse(data)} |-> AfterParse(parsed)][JsonParse(data)]

\* What one iteration of the for loop does with a line: continue ("skip"),
\* break ("break"), the inner catch ("caught"), or the end of the try block
\* ("parsed") with the text it appended
LineStep(line) ==
    IF Skipped(line) THEN [kind |-> "skip", text |-> <<>>]
    ELSE IF IsDone(Substring(line, 6)) THEN [kind |-> "break", text |-> <<>>]
    ELSE [d \in {Delta(Substring(line, 6))} |->
             [kind |-> IF d.caught THEN "caught" ELSE "parsed", text |-> d.text]]
             [Delta(Substring(line, 6))]

\* The lines the for loop still has to visit
LinesLeft(kind, rest) ==
    CASE kind = "break"  -> AfterBreak(rest)
      [] kind = "caught" -> AfterCatch(rest)
      [] OTHER           -> rest

\* One iteration of for (const line of lines)
ProcessLine(r) ==
    /\ reqs[r].pc = "lines"
    /\ \E line \in {Head(reqs[r].lines)} :
       \E step \in {LineStep(line)} :
       \E left \in {LinesLeft(step.kind, Tail(reqs[r].lines))} :
       \E full \in {IF step.text = <<>> THEN reqs[r].fullResponse
                    ELSE Accumulate(reqs[r].fullResponse, step.text)} :
          /\ reqs' = [reqs EXCEPT ![r] =
                        [@ EXCEPT !.fullResponse = full,
                                  !.lines = left,
                                  !.pc = IF left = <<>> THEN "read" ELSE "lines"]]
          /\ messages' = IF step.text = <<>> THEN messages
                         ELSE ApplyDelta(messages, full)
    /\ event' = "other"
    /\ UNCHANGED <<userInput, isLoading, speakLog, utterance>>

---------------------------------------------------------------------------
(* Specifications *)

\* The calls of handleSendMessage waiting at each await, or in the for loop
Fetching == {r \in DOMAIN reqs : reqs[r].pc = "fetch"}

Reading == {r \in DOMAIN reqs : reqs[r].pc = "read"}

Looping == {r \in DOMAIN reqs : reqs[r].pc = "lines"}

\* A session: several requests, one after the other
Next ==
    \/ Submit(MaxSubmits)
    \/ \E text \in InputTexts : OnChange(text)
    \/ \E transcript \in Transcripts : OnResult(transcript)
    \/ \E r \in Fetching : FetchRejects(r)
    \/ \E r \in Fetching : \E response \in SessionResponses :
           FetchResponds(r, response)
    \/ \E r \in Reading : \E k \in 1..Len(reqs[r].wire) : ReadChunk(r, k)
    \/ \E r \in Reading : ReadDone(r)
    \/ \E r \in Reading : ReadRejects(r)
    \/ \E r \in Looping : ProcessLine(r)

Spec == Init /\ [][Next]_vars

\* One request, with every body of up to MaxLines lines; the calls the guard
\* rejects are left to the session
NextRequest ==
    \/ ~Rejects(userInput) /\ Submit(1)
    \/ \E text \in InputTexts : OnChange(text)
    \/ \E r \in Fetching : FetchRejects(r)
    \/ \E r \in Fetching : \E response \in RequestResponses :
           FetchResponds(r, response)
    \/ \E r \in Reading : \E k \in 1..Len(reqs[r].wire) : ReadChunk(r, k)
    \/ \E r \in Reading : ReadDone(r)
    \/ \E r \in Reading : ReadRejects(r)
    \/ \E r \in Looping : ProcessLine(r)

SpecRequest == Init /\ [][NextRequest]_vars

\* The steps of the requests: the network settles every fetch and every read
RequestProgress ==
    \/ \E r \in Fetching : FetchRejects(r)
    \/ \E r \in Fetching : \E response \in SessionResponses :
           FetchResponds(r, response)
    \/ \E r \in Reading : ReadDone(r)
    \/ \E r \in Reading : ReadRejects(r)
    \/ \E r \in Reading : \E k \in 1..Len(reqs[r].wire) : ReadChunk(r, k)
    \/ \E r \in Looping : ProcessLine(r)

FairSpec == Spec /\ WF_vars(RequestProgress)

---------------------------------------------------------------------------
(* Properties of the stream decoder, checked under SpecRequest *)

FinishedOk(r) == reqs[r].pc = "finished" /\ reqs[r].outcome = "ok"

Running(r) == reqs[r].outcome = "running"

\* The lines of the body the provider sent to request r
BodyOf(r) == reqs[r].response.body.lines

LastContent(msgs) == msgs[Len(msgs)].content

RECURSIVE SentText(_)
\* The s values of the delta lines of a body, in the order sent
SentText(ls) ==
    IF ls = <<>> THEN <<>>
    ELSE (IF Head(ls).k = "delta" THEN Head(ls).s ELSE <<>>) \o SentText(Tail(ls))

\* Delta lines followed by one [DONE] line
DeltasThenDone(ls) ==
    /\ Len(ls) >= 1
    /\ ls[Len(ls)].k = "done"
    /\ \A i \in 1..(Len(ls) - 1) : ls[i].k = "delta"

\* C1: when the stream of a body made of complete delta lines followed by a
\* [DONE] line has reported completion, however the bytes were cut into
\* reads, fullResponse is the concatenation of the s values in the order
\* sent, and so is the content of the last message.
C1_FinalTextIsConcatenation ==
    \A r \in DOMAIN reqs :
        (FinishedOk(r) /\ DeltasThenDone(BodyOf(r)))
            => /\ reqs[r].fullResponse = SentText(BodyOf(r))
               /\ LastContent(messages) = SentText(BodyOf(r))

C1_Witness ==
    \E r \in DOMAIN reqs :
        /\ FinishedOk(r)
        /\ BodyOf(r) = <<DeltaLine(<<"a">>), DeltaLine(<<"U+00E9">>),
                         OtherLine("done")>>
        /\ LastContent(messages) = <<"a", "U+00E9">>

RECURSIVE RunLines(_, _)
\* fullResponse after the for loop has run over the lines of one chunk
RunLines(lines, full) ==
    IF lines = <<>> THEN full
    ELSE LET step == LineStep(Head(lines)) IN
         IF step.kind = "break" THEN full
         ELSE RunLines(Tail(lines), full \o step.text)

\* fullResponse when the whole body arrives in a single read
Unsplit(ls) ==
    LET parts == Split(Decode(<<>>, Utf8Encode(BodyText(ls))).out)
    IN  RunLines(SubSeq(parts, 1, Len(parts) - 1), <<>>)

\* C2: for any body of data lines and any way of cutting it into reads, the
\* final text is the text the same body gives when it arrives in one read.
C2_ChunkingDoesNotMatter ==
    \A r \in DOMAIN reqs :
        FinishedOk(r) => reqs[r].fullResponse = Unsplit(BodyOf(r))

\* No data line follows a [DONE] line
DoneIsLast(ls) ==
    \A i \in 1..Len(ls) : ls[i].k = "done" =>
        \A j \in (i + 1)..Len(ls) : ls[j].k \notin {"delta", "done"}

\* Reassembly for the bodies that end at their [DONE] line: the final text
\* is the text of the unsplit body, and the text of the deltas sent before
\* the [DONE] line.
ReassemblyWhenDoneIsLast ==
    \A r \in DOMAIN reqs :
        (FinishedOk(r) /\ DoneIsLast(BodyOf(r)))
            => /\ reqs[r].fullResponse = Unsplit(BodyOf(r))
               /\ reqs[r].fullResponse = SentText(BodyOf(r))

\* The lines whose payload fails JSON parsing or lacks choices[0].delta.content
BadLineKinds == {"malformed", "nochoices", "roleonly"}

BadLineTexts == {Render(OtherLine(k)) : k \in BadLineKinds}

HasBadLine(ls) == \E i \in 1..Len(ls) : ls[i].k \in BadLineKinds

\* The for loop of request r is about to visit a line of this set
Visits(r, texts) == reqs[r].pc = "lines" /\ Head(reqs[r].lines) \in texts

\* A step over a bad line appends nothing, leaves the conversation and the
\* busy flag alone, keeps the request running and goes on with the next line
BadLineIsSkipped ==
    \A r \in DOMAIN reqs :
        Visits(r, BadLineTexts)
            => /\ reqs'[r].fullResponse = reqs[r].fullResponse
               /\ reqs'[r].lines = Tail(reqs[r].lines)
               /\ reqs'[r].outcome = "running"
               /\ reqs'[r].buffer = reqs[r].buffer
               /\ messages' = messages
               /\ isLoading' = isLoading
               /\ speakLog' = speakLog

\* A body with a bad line, completed: the final text is the text of its
\* valid deltas, in order
BadLinesLeaveNoTrace ==
    \A r \in DOMAIN reqs :
        (FinishedOk(r) /\ HasBadLine(BodyOf(r)) /\ DoneIsLast(BodyOf(r)))
            => /\ reqs[r].fullResponse = SentText(BodyOf(r))
               /\ LastContent(messages) = SentText(BodyOf(r))

\* C3: a data line whose payload fails JSON parsing, or lacks the content
\* path, is skipped: it adds nothing to the text, does not end the stream or
\* fail the request, and the valid deltas after it, in the same chunk or a
\* later one, are still appended in order, so that the final text is the
\* concatenation of the valid deltas.
C3_BadLineSkipped == []BadLinesLeaveNoTrace /\ [][BadLineIsSkipped]_vars

C3_Witness ==
    \E r \in DOMAIN reqs :
        /\ FinishedOk(r)
        /\ BodyOf(r) = <<DeltaLine(<<"a">>), OtherLine("malformed"),
                         DeltaLine(<<"U+00E9">>)>>
        /\ LastContent(messages) = <<"a", "U+00E9">>

\* The delta lines with a non-empty s, as they stand in the buffer
DeltaTexts == {Render(DeltaLine(<<c>>)) : c \in StringChars}

\* The s of such a line
SOf(line) == <<line[Len(DataPrefix) + 2]>>

\* A step of a running request changes the last message only by appending the
\* delta of the line it visits, and appends the delta of every delta line
GrowsByOneDelta ==
    \A r \in DOMAIN reqs :
        (Running(r) /\ reqs'[r].outcome = "running")
            => /\ Len(messages') = Len(messages)
               /\ LastContent(messages') = reqs'[r].fullResponse
               /\ IF Visits(r, DeltaTexts)
                  THEN LastContent(messages') =
                           LastContent(messages) \o SOf(Head(reqs[r].lines))
                  ELSE LastContent(messages') = LastContent(messages)

DoneTexts == {Render(OtherLine("done"))}

\* The step over a [DONE] line leaves the for loop with nothing applied and
\* nothing spoken, and the request goes back to reading
DoneEndsTheChunk ==
    \A r \in DOMAIN reqs :
        Visits(r, DoneTexts)
            => /\ reqs'[r].lines = <<>>
               /\ reqs'[r].pc = "read"
               /\ reqs'[r].outcome = "running"
               /\ reqs'[r].fullResponse = reqs[r].fullResponse
               /\ reqs'[r].wire = reqs[r].wire
               /\ messages' = messages
               /\ speakLog' = speakLog
               /\ isLoading' = isLoading

\* speak is called as a request finishes; with the text of the stream only
\* once every byte has been read
SpokenAtTheEnd ==
    speakLog' # speakLog =>
        \E r \in DOMAIN reqs :
            /\ Running(r)
            /\ reqs'[r].pc = "finished"
            /\ Len(speakLog') = Len(speakLog) + 1
            /\ reqs'[r].outcome = "ok" =>
                  /\ reqs[r].pc = "read"
                  /\ reqs[r].wire = <<>>
                  /\ speakLog'[Len(speakLog')] = reqs[r].fullResponse

Finished == {r \in DOMAIN reqs : reqs[r].pc = "finished"}

\* One call of speak for every finished request
SpokenOncePerRequest == Len(speakLog) = Cardinality(Finished)

\* C9: at a line whose trimmed payload is [DONE] the decoder applies no delta
\* of a later line of the same chunk, does not fail, and keeps reading until
\* the stream reports completion; only then is the text handed to speak,
\* once for the request.
C9_DoneSentinel ==
    []SpokenOncePerRequest /\ [][DoneEndsTheChunk /\ SpokenAtTheEnd]_vars

C9_Witness ==
    \E r \in DOMAIN reqs :
        /\ FinishedOk(r)
        /\ BodyOf(r) = <<DeltaLine(<<"a">>), OtherLine("done"),
                         DeltaLine(<<"U+00E9">>)>>
        /\ reqs[r].fullResponse = <<"a">>
        /\ speakLog = << <<"a">> >>

\* The catch block of a failing request: the placeholder of the request, the
\* last message, gets the error string built around the reason; nothing
\* else in the conversation moves; the same string goes to speak
FailureOverwritesPlaceholder ==
    \A r \in DOMAIN reqs :
        (Running(r) /\ reqs'[r].outcome = "error")
            => \E text \in {ErrorPrefix \o reqs'[r].error \o ErrorSuffix} :
               /\ reqs'[r].error # <<>>
               /\ Len(messages') = Len(messages)
               /\ Len(messages') = reqs[r].slot
               /\ messages'[Len(messages')] = Message("MODEL", text)
               /\ \A i \in 1..(Len(messages) - 1) : messages'[i] = messages[i]
               /\ speakLog' = Append(speakLog, text)
               /\ utterance' = text

\* The message of the error object of a non-2xx body, when it has one
BodyMessage(response) ==
    IF /\ ~response.ok
       /\ response.body.kind = "json"
       /\ "error" \in DOMAIN response.body.value.f
       /\ "message" \in DOMAIN response.body.value.f.error.f
    THEN response.body.value.f.error.f.message.v
    ELSE <<>>

\* The reason of a non-2xx failure is the message of the body
ReasonIsBodyMessage ==
    \A r \in DOMAIN reqs :
        (Running(r) /\ reqs'[r].outcome = "error"
            /\ BodyMessage(reqs'[r].response) # <<>>)
            => reqs'[r].error = BodyMessage(reqs'[r].response)

\* C5: on any request-level failure of an accepted submit (fetch error,
\* non-2xx status, missing body, read error after some deltas) the last
\* message is the MODEL message of the request with an error string around
\* the failure reason (the message m of a non-2xx body {"error":{"message":
\* m}}), the conversation is as long as just after the submit, and the same
\* string is handed to speak.
C5_FailureBecomesMessage ==
    [][FailureOverwritesPlaceholder /\ ReasonIsBodyMessage]_vars

C5_Witness ==
    \E r \in DOMAIN reqs :
        /\ reqs[r].outcome = "error"
        /\ reqs[r].fullResponse = <<"a", "U+00E9">>
        /\ Len(messages) = reqs[r].slot
        /\ LastContent(messages) =
               ErrorPrefix \o <<"network error">> \o ErrorSuffix

---------------------------------------------------------------------------
(* Properties of the session, checked under Spec and FairSpec *)

Blank(text) == \A i \in 1..Len(text) : text[i] \in WhiteSpace

InFlight == {r \in DOMAIN reqs : Running(r)}

\* A call of handleSendMessage with a blank text, or while busy, changes
\* nothing and starts no request
RejectedSubmitIsNoOp ==
    (event' = "submit" /\ (isLoading \/ Blank(userInput)))
        => UNCHANGED <<messages, userInput, isLoading, reqs, speakLog, utterance>>

\* C4: submit is a no-op whenever its text is empty or whitespace-only or a
\* request is in flight: conversation, input field and busy flag are
\* unchanged and no request is issued; so at most one request is in flight.
C4_GuardedSubmit ==
    [](Cardinality(InFlight) <= 1) /\ [][RejectedSubmitIsNoOp]_vars

C4_Witness ==
    /\ event = "submit"
    /\ isLoading
    /\ userInput = <<"h", "i">>
    /\ \E r \in DOMAIN reqs : reqs[r].pc = "read" /\ reqs[r].fullResponse = <<"a">>

\* The messages in progress: the placeholders of the requests in flight
InProgress == {reqs[r].slot : r \in InFlight}

\* C6: at most one message is in progress; it is the last message and a
\* MODEL message; none is in progress while the busy flag is clear, and no
\* USER message stands behind one.
C6_OneInProgressLast ==
    /\ Cardinality(InProgress) <= 1
    /\ \A i \in InProgress : i = Len(messages) /\ messages[i].role = "MODEL"
    /\ \A r \in InFlight : messages[reqs[r].slot].content = reqs[r].fullResponse
    /\ ~isLoading => InProgress = {}

C6_Witness ==
    \E r \in InFlight :
        /\ reqs[r].slot = 5
        /\ Len(messages) = 5
        /\ messages[5] = Message("MODEL", <<"a">>)
        /\ messages[4].role = "USER"

\* The step of an accepted submit
Extends ==
    /\ Len(messages') = Len(messages) + 2
    /\ SubSeq(messages', 1, Len(messages)) = messages
    /\ messages'[Len(messages) + 1] = Message("USER", userInput)
    /\ messages'[Len(messages) + 2] = Message("MODEL", <<>>)

\* Any other step
KeepsAllButLastContent ==
    /\ Len(messages') = Len(messages)
    /\ \A i \in 1..(Len(messages) - 1) : messages'[i] = messages[i]
    /\ messages'[Len(messages)].role = messages[Len(messages)].role

AppendOnly ==
    IF event' = "submit" /\ ~isLoading /\ ~Blank(userInput)
    THEN Extends
    ELSE KeepsAllButLastContent

\* C7: the conversation is append-only but for the content of its last
\* message: an accepted submit appends {USER, text} and {MODEL, ""}, and
\* every later step of the request leaves the length, the order and every
\* message but the last as they are, and the role of the last.
C7_AppendOnly == [][AppendOnly]_vars

C7_Witness ==
    /\ Len(messages) = 5
    /\ messages[3] = Message("MODEL", <<"a", "U+00E9">>)
    /\ messages[5] = Message("MODEL", <<"a">>)
    /\ isLoading

\* An accepted call sets the busy flag and starts a request
AcceptedSetsBusy ==
    (event' = "submit" /\ ~isLoading /\ ~Blank(userInput))
        => /\ isLoading'
           /\ Len(reqs') = Len(reqs) + 1
           /\ reqs'[Len(reqs')].outcome = "running"

\* C10: an accepted submit sets the busy flag; the flag is set exactly while
\* a request is in flight, so it is cleared on every exit and never while
\* the request is reading; when the network settles every fetch and every
\* read, a busy session becomes idle again, where a non-empty submit is
\* accepted.
C10_BusyFlagClears ==
    /\ [](isLoading <=> InFlight # {})
    /\ [][AcceptedSetsBusy]_vars
    /\ (isLoading ~> ~isLoading)

C10_Witness ==
    /\ Len(reqs) = 2
    /\ reqs[1].outcome = "error"
    /\ Running(2)
    /\ isLoading

=============================================================================
